---- MODULE Spec2Model ----
(***************************************************************************)
(* Model of the archive engine of jdae/start_jdae.py (class JDAE) and of   *)
(* the settings it reads through jdae/src/configmanager.py.                *)
(*                                                                         *)
(* One process runs JDAE.main on the main thread.  The state is the JDAE   *)
(* object's fields, the locals of main and download_from_url that live     *)
(* across blocking calls, the position of the main thread (pc) and the     *)
(* content of <output_dir>/archive_history.json.  The environment delivers *)
(* SIGTERM/SIGINT (signal_handler runs on the main thread between two      *)
(* bytecodes) and may kill the process outright.  yt_dlp (extract_info,    *)
(* download) is an opaque collaborator: its results are drawn from bounded *)
(* sets.                                                                   *)
(***************************************************************************)
EXTENDS Integers, Sequences, FiniteSets, TLC

\* ------------------------------------------------------------------ bounds

\* Longest 'entries' list extract_info returns for a collection.
MaxEntries == 2

\* Number of archive passes the model follows.
MaxPass == 2

\* Largest configured archive_wait_time, in seconds.
MaxWait == 2

\* Number of times the storage refuses to be written in one run.
MaxSaveFailures == 1

\* ------------------------------------------------------- program constants

\* time.sleep(1) in the wait loop of main: one sleep slice, in seconds.
SLEEP_SLICE == 1

\* ---------------------------------------------------------------- settings

\* Values of environment variables and of config-file options.  A text is
\* [text |-> s]; the text of a decimal number is [num |-> n, den |-> d], d
\* being 10 to the number of digits after the point (d = 1: no point); the
\* content of url_list.ini is [lines |-> <<...>>], each line as rstrip()
\* leaves it.
Text(s) == [text |-> s]
Decimal(n, d) == [num |-> n, den |-> d]
Lines(l) == [lines |-> l]

\* os.environ.get(NAME) is None.
Unset == [unset |-> TRUE]

\* The option is not in the [SETTINGS] section (the file is not there).
Missing == [missing |-> TRUE]

\* What a getter yields: a value of its type, or the exception it raises.
Raises(exc) == [raises |-> exc]
IsValue(r) == "raises" \notin DOMAIN r /\ "pending" \notin DOMAIN r

\* `if env_x:` on the result of os.environ.get.
EnvTruthy(e) == e # Unset /\ e # Text("")

\* `val in [...]`, the conversion of a text to a bool.
BoolOf(v, truthy) == [bool |-> "text" \in DOMAIN v /\ v.text \in truthy]

\* int() of a number n/d: truncation toward zero.
Trunc(n, d) == IF n >= 0 THEN n \div d ELSE -((-n) \div d)

\* ConfigManager.get_url_list: the lines after the first one.
get_url_list(f) ==
  IF f = Missing THEN Raises("FileNotFoundError")
  ELSE Lines(IF Len(f.lines) > 0 THEN Tail(f.lines) ELSE f.lines)

\* ConfigManager.get_skip_intro
get_skip_intro(opt) ==
  IF opt = Missing THEN Raises("KeyError") ELSE BoolOf(opt, {"True", "true"})

\* ConfigManager.get_output_dir
get_output_dir(env, opt) ==
  IF EnvTruthy(env) THEN [str |-> env.text]
  ELSE IF opt = Missing THEN Raises("KeyError") ELSE [str |-> opt.text]

\* ConfigManager.get_archive_freq: int(float(option) * 3600).
get_archive_freq(opt) ==
  IF opt = Missing THEN Raises("KeyError")
  ELSE IF "num" \in DOMAIN opt THEN [int |-> Trunc(opt.num * 3600, opt.den)]
  ELSE Raises("ValueError")

\* ConfigManager.get_oauth
get_oauth(env, opt) ==
  IF EnvTruthy(env) THEN [str |-> env.text]
  ELSE IF opt = Missing THEN Raises("KeyError") ELSE [str |-> opt.text]

\* ConfigManager.get_hq_en
get_hq_en(env, opt) ==
  IF EnvTruthy(env) THEN BoolOf(env, {"True", "true", "1", "yes"})
  ELSE IF opt = Missing THEN Raises("KeyError")
  ELSE BoolOf(opt, {"True", "true", "1", "yes"})

\* ConfigManager.get_sleep_interval_requests: int(option).
get_sleep_interval_requests(opt) ==
  IF opt = Missing THEN Raises("KeyError")
  ELSE IF "num" \in DOMAIN opt /\ opt.den = 1 THEN [int |-> opt.num]
  ELSE Raises("ValueError")

\* ConfigManager.get_listformats
get_listformats(opt) ==
  IF opt = Missing THEN Raises("KeyError") ELSE BoolOf(opt, {"True", "true"})

\* ConfigManager.get_embed_metadata: the option defaults to "True".
get_embed_metadata(env, opt) ==
  IF EnvTruthy(env) THEN BoolOf(env, {"True", "true", "1", "yes"})
  ELSE BoolOf(IF opt = Missing THEN Text("True") ELSE opt, {"True", "true", "1", "yes"})

\* The getter of each option, by the option's name.
Getter(field, env, opt) ==
  CASE field = "url_list" -> get_url_list(opt)
    [] field = "skip_intro" -> get_skip_intro(opt)
    [] field = "output_dir" -> get_output_dir(env, opt)
    [] field = "archive_frequency" -> get_archive_freq(opt)
    [] field = "oauth" -> get_oauth(env, opt)
    [] field = "high_quality_enable" -> get_hq_en(env, opt)
    [] field = "rate_limit_sec" -> get_sleep_interval_requests(opt)
    [] field = "listformats" -> get_listformats(opt)
    [] field = "embed_metadata" -> get_embed_metadata(env, opt)

\* The decimal text of an archive_frequency (in hours) that get_archive_freq
\* turns into sec seconds.
HoursFor(sec) == Decimal((sec * 10000) \div 36 + 1, 1000000)

\* Contents of url_list.ini: empty, the header alone, the header and two
\* pages.
UrlFiles ==
  {Lines(<<>>), Lines(<<"[URL LIST]">>), Lines(<<"[URL LIST]", "p1", "p2">>)}

\* The url lists main may work on.
UrlLists == {get_url_list(f).lines : f \in UrlFiles}

\* archive_frequency options of the engine runs: "0" and a positive one.
ArchiveFrequencies == {Decimal(0, 1), HoursFor(MaxWait)}

\* The intervals main may work with.
ArchiveWaitTimes == {get_archive_freq(v).int : v \in ArchiveFrequencies}

\* os.path.join(output_dir, "archive_history.json")
HISTORY_PATH == "archive_history.json"

\* The values the environment variable of an option may hold.
EnvValues(field) ==
  {Unset, Text("")} \cup
    CASE field \in {"skip_intro", "high_quality_enable", "listformats", "embed_metadata"}
           -> {Text("true"), Text("0")}
      [] field = "output_dir" -> {Text("/env")}
      [] field = "oauth" -> {Text("envtoken")}
      [] field = "archive_frequency" -> {HoursFor(MaxWait)}
      [] field = "rate_limit_sec" -> {Decimal(1, 1)}
      [] field = "url_list" -> {Lines(<<"[URL LIST]", "e1">>)}

\* The values the config file may hold for an option.
FileValues(field) ==
  {Missing} \cup
    CASE field \in {"skip_intro", "high_quality_enable", "listformats", "embed_metadata"}
           -> {Text("True"), Text("yes"), Text("False")}
      [] field = "output_dir" -> {Text("/out")}
      [] field = "oauth" -> {Text("token")}
      [] field = "archive_frequency"
           -> ArchiveFrequencies \cup {Decimal(1, 10000), Decimal(-1, 1000), Text("abc")}
      [] field = "rate_limit_sec" -> {Decimal(0, 1), Decimal(5, 10), Text("abc")}
      [] field = "url_list" -> UrlFiles

\* The options ConfigManager reads.
Fields ==
  {"url_list", "skip_intro", "output_dir", "archive_frequency", "oauth",
   "high_quality_enable", "rate_limit_sec", "listformats", "embed_metadata"}

\* ---------------------------------------------------------- python helpers

\* dict.get(key, default)
Get(d, k, default) == IF k \in DOMAIN d THEN d[k] ELSE default

\* d[k] = v on a dict
Put(d, k, v) == [x \in (DOMAIN d) \cup {k} |-> IF x = k THEN v ELSE d[x]]

\* {} : the empty dict
EmptyDict == [x \in {} |-> x]

\* ------------------------------------------------- what yt_dlp may return

\* Info dicts of collection entries; the last one carries no 'id'.
EntryA == [id |-> "a", url |-> "ua", title |-> "A", uploader |-> "up",
           duration |-> 3, filesize |-> 9]
EntryB == [id |-> "b", url |-> "ub", title |-> "B"]
EntryN == [url |-> "un", title |-> "N"]

\* A falsy entry of 'entries' (None).
NoneEntry == [none |-> TRUE]

\* Info dict of a page that is a single track.
SingleA == [id |-> "a", title |-> "A", uploader |-> "up", duration |-> 3,
            filesize |-> 9]

\* extract_info returned None.
NoneInfo == [none |-> TRUE]

\* All lists of at most n elements of S.
RECURSIVE SeqsUpTo(_, _)
SeqsUpTo(S, n) ==
  IF n = 0 THEN {<<>>}
  ELSE LET shorter == SeqsUpTo(S, n - 1)
       IN shorter \cup {Append(s, e) : s \in {t \in shorter : Len(t) = n - 1}, e \in S}

\* The values ytdl.extract_info(url, download=False) may return.
ExtractReturns ==
  {NoneInfo, SingleA}
    \cup {[entries |-> s] : s \in SeqsUpTo({EntryA, EntryB, EntryN, NoneEntry}, MaxEntries)}

\* Python truthiness of an entry: `if entry`.
Truthy(entry) == "none" \notin DOMAIN entry

\* -------------------------------------------------------------- the ledger

\* Keys a ledger of this model can hold, in Python's string order.
KeyOrder == <<"a", "b", "un">>

KeyRank(k) == CHOOSE i \in 1..Len(KeyOrder) : KeyOrder[i] = k

\* sorted(keys): what sort_keys=True of json.dump does.
RECURSIVE SortedKeys(_)
SortedKeys(S) ==
  IF S = {} THEN <<>>
  ELSE LET m == CHOOSE k \in S : \A j \in S : KeyRank(k) <= KeyRank(j)
       IN <<m>> \o SortedKeys(S \ {m})

\* json.dump(self.archive_history, f, indent=2, sort_keys=True): the text of
\* a JSON object, as its members in key order.
json_dump(h) ==
  LET ks == SortedKeys(DOMAIN h)
  IN [i \in 1..Len(ks) |-> <<ks[i], h[ks[i]]>>]

\* json.load of a complete JSON object: a dict; a later member with the same
\* key replaces an earlier one.
RECURSIVE json_load(_)
json_load(text) ==
  IF text = <<>> THEN EmptyDict
  ELSE LET n == Len(text)
       IN Put(json_load(SubSeq(text, 1, n - 1)), text[n][1], text[n][2])

\* The storage file: absent, or a text that is a complete JSON object or not.
NoFile == [exists |-> FALSE, text |-> <<>>, complete |-> FALSE]
Truncated == [exists |-> TRUE, text |-> <<>>, complete |-> FALSE]
Written(h) == [exists |-> TRUE, text |-> json_dump(h), complete |-> TRUE]

\* A file that once held ledger h and that open() refuses or json.load
\* rejects (cut short, damaged, unreadable).
Unparsable(h) == [exists |-> TRUE, text |-> json_dump(h), complete |-> FALSE]

\* A load without the try of lines 87-93: it takes whatever members the
\* text holds.
load_without_handler(f) == IF f.exists THEN json_load(f.text) ELSE EmptyDict

\* A load whose result is bound to a local name: self.archive_history stays
\* the empty dict of __init__.
load_into_local(f) == EmptyDict

\* JDAE.load_archive_history: the dict it leaves in self.archive_history.
load_archive_history(f) ==
  IF f.exists
    THEN IF f.complete THEN json_load(f.text) ELSE EmptyDict
    ELSE EmptyDict

\* JDAE.is_archived
is_archived(h, item_id) == item_id \in DOMAIN h

\* The key add_to_history files an item under: info.get('id', url).
HistoryKey(url, item) == Get(item, "id", url)

\* datetime.now().isoformat(): an opaque stamp.
NowIso == "now"

\* The record add_to_history stores (lines 125-132).
HistoryRecord(url, item) ==
  [title |-> Get(item, "title", "Unknown"),
   url |-> url,
   uploader |-> Get(item, "uploader", "Unknown"),
   timestamp |-> NowIso,
   duration |-> Get(item, "duration", 0),
   filesize |-> Get(item, "filesize", 0)]

\* An insert that rebinds self.archive_history to a dict of the one record.
add_to_history_rebinds(h, url, item) ==
  [k \in {HistoryKey(url, item)} |-> HistoryRecord(url, item)]

\* JDAE.add_to_history, lines 124-132: the ledger after the insert.
add_to_history(h, url, item) ==
  Put(h, HistoryKey(url, item), HistoryRecord(url, item))

\* A failed save that takes the insert of key k back.
RollbackInsert(h, k) == [x \in (DOMAIN h) \ {k} |-> h[x]]

\* The ledger after save_archive_history has failed (lines 117-118): the
\* warning is printed and the insert of key k stays.
AfterPersistFailure(h, k) == h

\* The ledgers the storage file may hold when the process starts.
InitialLedgers ==
  {[k \in {"b"} |-> HistoryRecord("ub", EntryB)]}

\* ------------------------------------------------------------------- state

\* self.current_url and self.current_info are written by download_from_url
\* and read nowhere; the entry in hand is new_items[item_idx] or info.
VARIABLES
  pc,                 \* position of the main thread
  archive_history,    \* self.archive_history
  history_file,       \* self.history_file
  shutdown_requested, \* self.shutdown_requested
  archive_wait_time,  \* main: archive_wait_time
  file,               \* content of the storage file
  pass_no,            \* number of the current pass
  url_idx,            \* main: index of `url` in url_list
  info,               \* download_from_url: info
  new_items,          \* download_from_url: new_items
  skipped_count,      \* download_from_url: skipped_count
  item_idx,           \* download_from_url: index of `entry` in new_items
  slept,              \* seconds slept in the current wait loop
  \* history variables
  transfer,           \* state of the latest ytdl.download call
  fetched,            \* identity keys whose transfer succeeded in this process
  recorded,           \* keys for which add_to_history has returned
  last_record,        \* whether the latest insert was of a new or a present key
  save_failures,      \* saves that failed so far
  file_before,        \* the file before the save in progress opened it, else the file
  sig_pc,             \* where the main thread was when the latest signal came
  sig_slept,          \* `slept` when the latest signal came
  attempted,          \* transfer calls issued for the url in hand
  url_unattempted,    \* new items left without a transfer call when a URL was left
  stopped_by,         \* how main was left: a break, SystemExit or another exception
  exit_status,        \* exit status of the process, NoStatus while there is none
  url_list,           \* main: url_list
  cfg_field,          \* the option whose getter is followed, "none" in engine runs
  env_value,          \* os.environ.get of the option's environment variable
  file_value,         \* the option in the config file (url_list.ini for url_list)
  resolved,           \* what the getter returned or raised
  ytdl_opts           \* main: ytdl_opts

vars ==
  <<pc, archive_history, history_file, shutdown_requested, archive_wait_time,
    file, pass_no, url_idx, info, new_items, skipped_count, item_idx,
    slept, transfer, fetched, recorded, last_record, file_before,
    save_failures,
    sig_pc, sig_slept, attempted, url_unattempted, stopped_by, exit_status,
    url_list, cfg_field, env_value, file_value, resolved, ytdl_opts>>

\* Groups of variables, for UNCHANGED.
configVars == <<url_list, cfg_field, env_value, file_value, resolved, ytdl_opts>>
settingVars == <<history_file, archive_wait_time, configVars>>
localVars == <<info, new_items, skipped_count, item_idx, attempted>>
ledgerVars == <<archive_history, fetched, recorded, last_record>>
fileVars == <<file, file_before, save_failures>>
signalVars == <<shutdown_requested, sig_pc, sig_slept>>
exitVars == <<stopped_by, exit_status>>

\* The process has no exit status: it runs, or it was killed.
NoStatus == -1

\* The exit status after main has returned to line 356: the module ends and
\* the interpreter exits with 0, also when main was left through the bare
\* except of lines 349-351.
StatusAfterMain == 0

\* main returns: the exit status of the process is set.
MainReturns(how) ==
  /\ pc' = "exited"
  /\ stopped_by' = how
  /\ exit_status' = StatusAfterMain

\* Lines 349-351 have printed the traceback and "Archive engine stopped".
StoppedMessage == stopped_by \in {"SystemExit", "error"}

\* No getter has returned yet.
Pending == [pending |-> TRUE]

\* ytdl_opts is not built yet.
NoOpts == [unbuilt |-> TRUE]

\* JDAE.__init__, the storage the process finds and the settings main will
\* read, for the runs of the engine.
Init ==
  /\ url_list \in UrlLists
  /\ cfg_field = "none"
  /\ env_value = Unset
  /\ file_value = Missing
  /\ resolved = Pending
  /\ ytdl_opts = NoOpts
  /\ pc = "init"
  /\ archive_history = EmptyDict
  /\ history_file = "None"
  /\ shutdown_requested = FALSE
  /\ archive_wait_time \in ArchiveWaitTimes
  /\ file \in {NoFile} \cup {Unparsable(h) : h \in InitialLedgers}
                       \cup {Written(h) : h \in InitialLedgers}
  /\ pass_no = 0
  /\ url_idx = 0
  /\ info = NoneInfo
  /\ new_items = <<>>
  /\ skipped_count = 0
  /\ item_idx = 0
  /\ slept = 0
  /\ transfer = "none"
  /\ fetched = {}
  /\ recorded = {}
  /\ last_record = "none"
  /\ file_before = file
  /\ save_failures = 0
  /\ sig_pc = "none"
  /\ sig_slept = 0
  /\ attempted = 0
  /\ url_unattempted = 0
  /\ stopped_by = "none"
  /\ exit_status = NoStatus

\* ------------------------------------------------------ download_from_url

\* 'entries' in info
IsPlaylist(i) == "entries" \in DOMAIN i

\* The key a collection entry is looked up under (line 183):
\* entry.get('id', '').
LookupKey(entry) == Get(entry, "id", "")

\* The partition of lines 179-186: the entries kept as new.
NewItems(entries, h) ==
  SelectSeq(entries, LAMBDA e : Truthy(e) /\ ~is_archived(h, LookupKey(e)))

\* The partition of lines 179-186: the entries counted as skipped.
SkippedCount(entries, h) ==
  Len(SelectSeq(entries, LAMBDA e : ~(Truthy(e) /\ ~is_archived(h, LookupKey(e)))))

\* The item a transfer is about, and the url handed to ytdl.download and
\* add_to_history: entry and entry['url'] for a collection, info and the page
\* url for a single track.
CurItem == IF IsPlaylist(info) THEN new_items[item_idx] ELSE info
CurUrl == IF IsPlaylist(info) THEN new_items[item_idx].url ELSE url_list[url_idx]
CurKey == HistoryKey(CurUrl, CurItem)

\* download_from_url returns to the for loop of main: the next url.
LeaveUrl ==
  /\ pc' = "url"
  /\ url_idx' = url_idx + 1
  /\ url_unattempted' = IF IsPlaylist(info) THEN Len(new_items) - attempted ELSE 0
  /\ attempted' = 0
  /\ info' = NoneInfo
  /\ new_items' = <<>>
  /\ skipped_count' = 0
  /\ item_idx' = 0

\* ytdl.download([...]) is called for the item in hand.
BeginTransfer ==
  /\ pc' = "download"
  /\ transfer' = "in_flight"
  /\ attempted' = attempted + 1

\* After add_to_history has returned: the next entry of a collection (the
\* for loop of line 194); a single track ends the url.
AfterItem ==
  IF IsPlaylist(info)
    THEN /\ pc' = "item"
         /\ item_idx' = item_idx + 1
         /\ UNCHANGED <<url_idx, url_unattempted, info, new_items, skipped_count,
                        attempted>>
    ELSE LeaveUrl

\* The exception propagates to the handler of the whole url (line 215).
TransferErrorEndsUrl == LeaveUrl

\* An exception of ytdl.download: caught per entry (line 200) for a
\* collection, so the loop goes on; caught by the handler of the url
\* (line 215) for a single track.
AfterTransferError ==
  IF IsPlaylist(info)
    THEN /\ pc' = "item"
         /\ item_idx' = item_idx + 1
         /\ UNCHANGED <<url_idx, url_unattempted, info, new_items, skipped_count,
                        attempted>>
    ELSE LeaveUrl

\* ------------------------------------------------------------ main, set-up

\* main, lines 232-321: the settings are read, self.history_file is set and
\* the ledger is loaded.
LoadHistory ==
  /\ pc = "init"
  /\ history_file' = HISTORY_PATH
  /\ archive_history' = load_archive_history(file)
  /\ pc' = "loop"
  /\ UNCHANGED <<archive_wait_time, configVars, exitVars, localVars, fileVars, signalVars, pass_no,
                 url_idx, slept, transfer, fetched, recorded,
                 last_record, url_unattempted>>

\* ---------------------------------------------------------- main, the loop

\* while not self.shutdown_requested (line 324): a pass begins, or main
\* returns.
LoopCheck ==
  /\ pc = "loop"
  /\ IF shutdown_requested
       THEN /\ MainReturns("break")
            /\ UNCHANGED <<pass_no, url_idx, url_unattempted>>
       ELSE /\ pass_no < MaxPass
            /\ pass_no' = pass_no + 1
            /\ url_idx' = 1
            /\ url_unattempted' = 0
            /\ pc' = "url"
            /\ UNCHANGED exitVars
  /\ UNCHANGED <<settingVars, localVars, ledgerVars, fileVars, signalVars,
                 slept, transfer>>

\* The for loop without the test of line 327.
NoUrlShutdownCheck == FALSE

\* The test of line 327 before a url is processed.
UrlShutdownCheck == shutdown_requested

\* for url in url_list (lines 326-329) and what follows the loop (337-346):
\* the next url is handed to download_from_url, or the pass is over and the
\* wait begins, or main returns.
UrlLoop ==
  /\ pc = "url"
  /\ IF url_idx <= Len(url_list) /\ ~UrlShutdownCheck
       THEN /\ pc' = "extract"
            /\ UNCHANGED <<slept, exitVars>>
       ELSE /\ IF shutdown_requested
                 THEN MainReturns("break")
                 ELSE pc' = "sleep" /\ UNCHANGED exitVars
            /\ slept' = 0
  /\ transfer' = "none"
  /\ UNCHANGED <<settingVars, localVars, ledgerVars, fileVars, signalVars,
                 pass_no, url_idx,
                 url_unattempted>>

\* time.sleep(1) in the wait loop (lines 347-348).
SleepSlice ==
  /\ pc = "sleep"
  /\ slept < archive_wait_time /\ ~shutdown_requested
  /\ slept' = slept + SLEEP_SLICE
  /\ UNCHANGED <<pc, settingVars, exitVars, localVars, ledgerVars, fileVars, signalVars,
                 pass_no, url_idx, transfer, url_unattempted>>

\* A wait loop that ends after its first slice, whatever the interval.
SleepDoneAfterOneSlice ==
  /\ pc = "sleep"
  /\ ~(slept < SLEEP_SLICE /\ slept < archive_wait_time /\ ~shutdown_requested)
  /\ pc' = "loop"
  /\ UNCHANGED <<settingVars, exitVars, localVars, ledgerVars, fileVars, signalVars,
                 pass_no, url_idx, slept, transfer, url_unattempted>>

\* The wait loop ends (line 347): back to the while of line 324.
SleepDone ==
  /\ pc = "sleep"
  /\ ~(slept < archive_wait_time /\ ~shutdown_requested)
  /\ pc' = "loop"
  /\ UNCHANGED <<settingVars, exitVars, localVars, ledgerVars, fileVars, signalVars,
                 pass_no, url_idx, slept, transfer, url_unattempted>>

\* ------------------------------------------------- download_from_url, steps

\* ytdl.extract_info raises: the handler of line 215 prints and the url is
\* done with.
ExtractRaises ==
  /\ pc = "extract"
  /\ LeaveUrl
  /\ UNCHANGED <<settingVars, exitVars, ledgerVars, fileVars, signalVars, pass_no,
                 slept, transfer>>

\* ytdl.extract_info returns (line 171); None ends the url (173-174), a
\* collection is partitioned (177-186).
ExtractInfo ==
  /\ pc = "extract"
  /\ \E res \in ExtractReturns :
       IF res = NoneInfo
         THEN LeaveUrl
         ELSE /\ pc' = "dispatch"
              /\ info' = res
              /\ new_items' = IF IsPlaylist(res)
                                THEN NewItems(res.entries, archive_history)
                                ELSE <<>>
              /\ skipped_count' = IF IsPlaylist(res)
                                    THEN SkippedCount(res.entries, archive_history)
                                    ELSE 0
              /\ UNCHANGED <<item_idx, attempted, url_idx, url_unattempted>>
  /\ UNCHANGED <<settingVars, exitVars, ledgerVars, fileVars, signalVars, pass_no,
                 slept, transfer>>

\* Lines 188-193 and 204-212: a collection with new items enters the for
\* loop, a single track that is not archived is transferred, anything else
\* ends the url.  Once partitioned, the entries of info are read no more:
\* only the branch taken is kept.
Dispatch ==
  /\ pc = "dispatch"
  /\ IF IsPlaylist(info)
       THEN IF new_items # <<>>
              THEN /\ pc' = "item"
                   /\ item_idx' = 1
                   /\ info' = [entries |-> <<>>]
                   /\ UNCHANGED <<new_items, skipped_count, attempted, url_idx,
                                  url_unattempted, transfer>>
              ELSE /\ LeaveUrl
                   /\ UNCHANGED transfer
       ELSE IF is_archived(archive_history, HistoryKey(url_list[url_idx], info))
              THEN /\ LeaveUrl
                   /\ UNCHANGED transfer
              ELSE /\ BeginTransfer
                   /\ UNCHANGED <<info, new_items, skipped_count, item_idx, url_idx,
                                  url_unattempted>>
  /\ UNCHANGED <<settingVars, exitVars, ledgerVars, fileVars, signalVars, pass_no, slept>>

\* for entry in new_items (lines 194-198): the next entry is transferred, or
\* the list is exhausted and the url is done with.
ItemLoop ==
  /\ pc = "item"
  /\ IF item_idx <= Len(new_items)
       THEN /\ BeginTransfer
            /\ UNCHANGED <<info, new_items, skipped_count, item_idx, url_idx,
                                  url_unattempted>>
       ELSE /\ LeaveUrl
            /\ UNCHANGED transfer
  /\ UNCHANGED <<settingVars, exitVars, ledgerVars, fileVars, signalVars, pass_no, slept>>

\* A handler that files the item although its transfer raised.
RecordsFailedTransfer(h, url, item) == add_to_history(h, url, item)

\* The ledger after ytdl.download has raised: add_to_history (lines 199, 213)
\* is skipped and the handlers of lines 200-201 and 215-216 only print.
LedgerAfterTransferError(h, url, item) == h

\* ytdl.download raises.
DownloadFails ==
  /\ pc = "download"
  /\ transfer' = "failed"
  /\ archive_history' = LedgerAfterTransferError(archive_history, CurUrl, CurItem)
  /\ AfterTransferError
  /\ UNCHANGED <<settingVars, exitVars, fetched, recorded, last_record, fileVars,
                 signalVars, pass_no, slept>>

\* ytdl.download returns and add_to_history (lines 124-132) inserts the
\* record; save_archive_history is entered.
DownloadSucceeds ==
  /\ pc = "download"
  /\ transfer' = "succeeded"
  /\ fetched' = fetched \cup {CurKey}
  /\ last_record' = IF CurKey \in DOMAIN archive_history THEN "overwrite" ELSE "new"
  /\ archive_history' = add_to_history(archive_history, CurUrl, CurItem)
  /\ pc' = "save_chmod_dir"
  /\ UNCHANGED <<settingVars, exitVars, localVars, fileVars, signalVars, pass_no,
                 url_idx, slept, recorded, url_unattempted>>

\* ---------------------------------------- save_archive_history, in steps

\* add_to_history returns (line 133) to download_from_url.
AddReturn ==
  /\ recorded' = recorded \cup {CurKey}
  /\ last_record' = "none"
  /\ AfterItem

\* Lines 103-109: the directory is made and os.chmod is tried under a bare
\* except.
SaveChmodDir ==
  /\ pc = "save_chmod_dir"
  /\ pc' = "save_open"
  /\ UNCHANGED <<settingVars, exitVars, localVars, ledgerVars, fileVars, signalVars,
                 pass_no, url_idx, slept, transfer, url_unattempted>>

\* open(self.history_file, 'w') (line 110) empties the file.
SaveOpen ==
  /\ pc = "save_open"
  /\ file_before' = file
  /\ file' = Truncated
  /\ pc' = "save_write"
  /\ UNCHANGED save_failures
  /\ UNCHANGED <<settingVars, exitVars, localVars, ledgerVars, signalVars,
                 pass_no, url_idx, slept, transfer, url_unattempted>>

\* os.makedirs or open raises: the handler of line 117 prints a warning and
\* save_archive_history returns with the file as it was.
SaveOpenFails ==
  /\ pc = "save_open"
  /\ save_failures < MaxSaveFailures
  /\ save_failures' = save_failures + 1
  /\ archive_history' = AfterPersistFailure(archive_history, CurKey)
  /\ AddReturn
  /\ UNCHANGED <<settingVars, exitVars, fetched, file, file_before,
                 signalVars, pass_no, slept, transfer>>

\* json.dump (line 111) writes the whole ledger and the file is closed.
SaveWrite ==
  /\ pc = "save_write"
  /\ file' = Written(archive_history)
  /\ file_before' = file'
  /\ UNCHANGED save_failures
  /\ pc' = "save_chmod_file"
  /\ UNCHANGED <<settingVars, exitVars, localVars, ledgerVars, signalVars, pass_no,
                 url_idx, slept, transfer, url_unattempted>>

\* Lines 113-116: os.chmod of the file is tried under a bare except;
\* save_archive_history and add_to_history return.
SaveChmodFile ==
  /\ pc = "save_chmod_file"
  /\ AddReturn
  /\ UNCHANGED <<settingVars, exitVars, archive_history, fetched, fileVars,
                 signalVars, pass_no, slept, transfer>>

\* ------------------------------------------------------------ environment

Stopped == {"exited", "killed"}

\* The main thread has left main: the frames of main and download_from_url
\* are gone, and so is the bookkeeping of the pass that was running.
FramesGone ==
  /\ url_idx' = 0
  /\ info' = NoneInfo
  /\ new_items' = <<>>
  /\ skipped_count' = 0
  /\ item_idx' = 0
  /\ attempted' = 0
  /\ url_unattempted' = 0

\* What the save_archive_history called by signal_handler (lines 78-79) may
\* do: nothing when self.history_file is not set yet.
HandlerSaves ==
  IF history_file = "None"
    THEN {"not_called"}
    ELSE {"written"} \cup (IF save_failures < MaxSaveFailures THEN {"open_fails"} ELSE {})

\* A handler whose save leaves the file as it finds it.
HandlerFileUntouched(outcome) == file

\* The file after that save.
HandlerFile(outcome) ==
  IF outcome = "written" THEN Written(archive_history) ELSE file

\* Where sys.exit(0) of signal_handler (line 80) leaves the main thread:
\* SystemExit raised inside the try of lines 106-109 or 113-116 is caught
\* by the bare except and the thread goes on; everywhere else it ends main
\* (it passes every `except Exception`, and the bare except of line 349
\* prints and returns).
AfterSysExit(at) ==
  IF at \in {"save_chmod_dir", "save_chmod_file"} THEN at ELSE "exited"

\* A handler that saves the ledger and returns: it sets a flag the loops do
\* not read and does not call sys.exit.
signal_handler_returns ==
  /\ pc \notin Stopped
  /\ sig_pc' = pc
  /\ sig_slept' = slept
  /\ \E outcome \in HandlerSaves :
       /\ file' = HandlerFile(outcome)
       /\ save_failures' = IF outcome = "open_fails" THEN save_failures + 1 ELSE save_failures
       /\ file_before' = HandlerFile(outcome)
  /\ UNCHANGED <<pc, shutdown_requested, settingVars, exitVars, localVars, ledgerVars,
                 pass_no, url_idx, slept, transfer, url_unattempted>>

\* JDAE.signal_handler, run on the main thread wherever it is.
signal_handler ==
  /\ pc \notin Stopped
  /\ shutdown_requested' = TRUE
  /\ sig_pc' = pc
  /\ sig_slept' = slept
  /\ \E outcome \in HandlerSaves :
       /\ file' = HandlerFile(outcome)
       /\ save_failures' = IF outcome = "open_fails" THEN save_failures + 1 ELSE save_failures
       /\ file_before' = IF AfterSysExit(pc) = "exited" /\ outcome # "written"
                           THEN file_before
                           ELSE HandlerFile(outcome)
  /\ IF AfterSysExit(pc) = "exited"
       THEN /\ MainReturns("SystemExit")
            /\ FramesGone
            /\ fetched' = {}
            /\ recorded' = {}
            /\ last_record' = "none"
            /\ pass_no' = 0
       ELSE UNCHANGED <<pc, exitVars, localVars, url_idx, url_unattempted, fetched,
                        recorded, last_record, pass_no>>
  /\ UNCHANGED <<settingVars, archive_history, transfer, slept>>

\* A statement of the loop of main itself (the prints of lines 329 and 340,
\* the clock and the sleep of lines 346-348) raises: nothing between it and
\* the bare except of line 349 catches, which prints the traceback and the
\* stopped message, and main returns.
UnexpectedError ==
  /\ pc \in {"url", "sleep"}
  /\ MainReturns("error")
  /\ FramesGone
  /\ fetched' = {}
  /\ recorded' = {}
  /\ last_record' = "none"
  /\ pass_no' = 0
  /\ UNCHANGED <<settingVars, archive_history, fileVars, signalVars, transfer,
                 slept>>

\* The process is killed (SIGKILL, power loss): nothing more runs, and
\* nothing of the process is left but the storage file.
Kill ==
  /\ pc \notin Stopped
  /\ pc' = "killed"
  /\ FramesGone
  /\ slept' = 0
  /\ archive_history' = EmptyDict
  /\ fetched' = {}
  /\ recorded' = {}
  /\ last_record' = "none"
  /\ transfer' = "none"
  /\ pass_no' = 0
  /\ shutdown_requested' = FALSE
  /\ sig_pc' = "none"
  /\ sig_slept' = 0
  /\ UNCHANGED <<settingVars, exitVars, fileVars>>

\* ------------------------------------------- main, reading the settings

\* The variables of the engine proper: untouched while the settings are read.
engineVars ==
  <<archive_history, history_file, shutdown_requested, archive_wait_time, file,
    pass_no, url_idx, info, new_items, skipped_count, item_idx, slept, transfer,
    fetched, recorded, last_record, file_before, save_failures, sig_pc,
    sig_slept, attempted, url_unattempted, url_list>>

\* JDAE.__init__ with one option, its environment variable and its value in
\* the config file drawn: the start of a run that follows how main
\* (lines 232-317) obtains that setting.
ConfigInit ==
  /\ cfg_field \in Fields
  /\ env_value \in EnvValues(cfg_field)
  /\ file_value \in FileValues(cfg_field)
  /\ resolved = Pending
  /\ ytdl_opts = NoOpts
  /\ url_list = <<>>
  /\ pc = "init"
  /\ archive_history = EmptyDict
  /\ history_file = "None"
  /\ shutdown_requested = FALSE
  /\ archive_wait_time = 0
  /\ file = NoFile
  /\ pass_no = 0
  /\ url_idx = 0
  /\ info = NoneInfo
  /\ new_items = <<>>
  /\ skipped_count = 0
  /\ item_idx = 0
  /\ slept = 0
  /\ transfer = "none"
  /\ fetched = {}
  /\ recorded = {}
  /\ last_record = "none"
  /\ file_before = file
  /\ save_failures = 0
  /\ sig_pc = "none"
  /\ sig_slept = 0
  /\ attempted = 0
  /\ url_unattempted = 0
  /\ stopped_by = "none"
  /\ exit_status = NoStatus

\* main calls the getter of the option in hand (lines 232-241, 266).
CallGetter(field, result) ==
  /\ pc = "init"
  /\ cfg_field = field
  /\ resolved = Pending
  /\ resolved' = result
  /\ UNCHANGED <<pc, engineVars, exitVars, cfg_field, env_value, file_value,
                 ytdl_opts>>

GetUrlList == CallGetter("url_list", get_url_list(file_value))
GetSkipIntro == CallGetter("skip_intro", get_skip_intro(file_value))
GetOutputDir == CallGetter("output_dir", get_output_dir(env_value, file_value))
GetArchiveFreq == CallGetter("archive_frequency", get_archive_freq(file_value))
GetOauth == CallGetter("oauth", get_oauth(env_value, file_value))
GetHqEn == CallGetter("high_quality_enable", get_hq_en(env_value, file_value))
GetSleepIntervalRequests ==
  CallGetter("rate_limit_sec", get_sleep_interval_requests(file_value))
GetListformats == CallGetter("listformats", get_listformats(file_value))
GetEmbedMetadata ==
  CallGetter("embed_metadata", get_embed_metadata(env_value, file_value))

\* The exit status of an interpreter that ends on an uncaught exception.
UncaughtStatus == 1

\* A getter raises: main is outside its try (line 322), nothing catches and
\* the interpreter ends with a traceback.
StartupFails ==
  /\ pc = "init"
  /\ "raises" \in DOMAIN resolved
  /\ pc' = "exited"
  /\ stopped_by' = "uncaught"
  /\ exit_status' = UncaughtStatus
  /\ UNCHANGED <<engineVars, cfg_field, env_value, file_value, resolved, ytdl_opts>>

\* The postprocessors of lines 288-307 and 311-317.
ExtractAudio ==
  [key |-> "FFmpegExtractAudio", preferredcodec |-> "mp3", preferredquality |-> "0"]
Metadata == [key |-> "FFmpegMetadata", add_metadata |-> TRUE]
EmbedThumbnail == [key |-> "EmbedThumbnail", already_have_thumbnail |-> FALSE]
ExecChmod == [key |-> "Exec", exec_cmd |-> "chmod 666 {}", when |-> "after_move"]

\* A list of postprocessors that sets the permissions first.
postprocessors_chmod_first(embed_metadata) ==
  IF embed_metadata
    THEN <<ExecChmod, ExtractAudio, Metadata, EmbedThumbnail>>
    ELSE <<ExecChmod>>

\* ytdl_opts["postprocessors"] (lines 285-317).
postprocessors(embed_metadata) ==
  IF embed_metadata
    THEN <<ExtractAudio, Metadata, EmbedThumbnail, ExecChmod>>
    ELSE <<ExecChmod>>

\* ytdl_opts as lines 271-317 build it.
YtdlOpts(list_formats, req_int, cookies, embed_metadata) ==
  [format |-> "ba[acodec!*=opus]",
   listformats |-> list_formats,
   sleep_interval_requests |-> req_int,
   postprocessors |-> postprocessors(embed_metadata)]
    @@ (IF cookies THEN [cookiefile |-> "cookies.txt"] ELSE EmptyDict)
    @@ (IF embed_metadata THEN [writethumbnail |-> TRUE] ELSE EmptyDict)

\* Lines 259-317: with embed_metadata resolved, ytdl_opts is built; the other
\* settings it takes in are drawn.
BuildOptions ==
  /\ pc = "init"
  /\ cfg_field = "embed_metadata"
  /\ "bool" \in DOMAIN resolved
  /\ ytdl_opts = NoOpts
  /\ \E list_formats \in BOOLEAN, req_int \in {0, 1}, cookies \in BOOLEAN :
       ytdl_opts' = YtdlOpts(list_formats, req_int, cookies, resolved.bool)
  /\ UNCHANGED <<pc, engineVars, exitVars, cfg_field, env_value, file_value,
                 resolved>>

ConfigNext ==
  \/ GetUrlList
  \/ GetSkipIntro
  \/ GetOutputDir
  \/ GetArchiveFreq
  \/ GetOauth
  \/ GetHqEn
  \/ GetSleepIntervalRequests
  \/ GetListformats
  \/ GetEmbedMetadata
  \/ StartupFails
  \/ BuildOptions

\* The runs that follow main through the reading of one setting.
ConfigSpec == ConfigInit /\ [][ConfigNext]_vars

\* --------------------------------------------------------- specification

Next ==
  \/ LoadHistory
  \/ LoopCheck
  \/ UrlLoop
  \/ SleepSlice
  \/ SleepDone
  \/ ExtractRaises
  \/ ExtractInfo
  \/ Dispatch
  \/ ItemLoop
  \/ DownloadFails
  \/ DownloadSucceeds
  \/ SaveChmodDir
  \/ SaveOpen
  \/ SaveOpenFails
  \/ SaveWrite
  \/ SaveChmodFile
  \/ signal_handler
  \/ UnexpectedError
  \/ Kill

Spec == Init /\ [][Next]_vars

\* The runs of the engine on an empty url list, in which the statements of
\* the loop of main do not fail.  The main thread takes its next step as
\* long as the process lives.
SchedulerInit == Init /\ url_list = <<>>

MainThread ==
  \/ LoadHistory
  \/ LoopCheck
  \/ UrlLoop
  \/ SleepSlice
  \/ SleepDone

SchedulerNext ==
  \/ LoadHistory
  \/ LoopCheck
  \/ UrlLoop
  \/ SleepSlice
  \/ SleepDone
  \/ signal_handler
  \/ Kill

SchedulerSpec == SchedulerInit /\ [][SchedulerNext]_vars /\ WF_vars(MainThread)

\* ------------------------------------------------------------------ claims

\* The identity key of a candidate: its identifier, or its source url when
\* it has none.
IdentityKey(entry) == HistoryKey(entry.url, entry)

\* The items of the list are pairwise different.
NoRepeats(items) ==
  \A i, j \in DOMAIN items : IdentityKey(items[i]) = IdentityKey(items[j]) => i = j

\* C1: once a transfer of an item has succeeded, no further transfer call is
\* issued for the same item, in the same pass or a later one: no transfer is
\* ever in flight for an identity key whose transfer has already succeeded
\* (stated for enumerations that list no item twice).
C1_ExactlyOnceFetch ==
  (pc = "download" /\ NoRepeats(new_items)) => CurKey \notin fetched

\* C2: after add_to_history has returned for an item with key k,
\* is_archived(k) is true for the rest of the process lifetime, whether or
\* not the persist step succeeded.
C2_RecordedIsArchived == \A k \in recorded : is_archived(archive_history, k)

\* add_to_history has returned for a key that the failed save left out of
\* the storage file.
C2_Witness ==
  /\ pc = "url"
  /\ save_failures > 0
  /\ \E k \in recorded :
       /\ k \notin DOMAIN load_archive_history(file)
       /\ is_archived(archive_history, k)

\* C3: for a candidate list returned by one enumeration, the items
\* dispatched are exactly the candidates whose identity key is not in the
\* ledger, and the skipped count is the number of candidates whose identity
\* key is in the ledger (stated for lists without falsy entries).
C3_PartitionByIdentityKey ==
  (pc = "dispatch" /\ IsPlaylist(info) /\ \A i \in DOMAIN info.entries : Truthy(info.entries[i]))
    => /\ new_items =
            SelectSeq(info.entries, LAMBDA e : ~is_archived(archive_history, IdentityKey(e)))
       /\ skipped_count =
            Len(SelectSeq(info.entries, LAMBDA e : is_archived(archive_history, IdentityKey(e))))

\* C4: within a pass a failed enumeration or transfer never keeps the other
\* new items of the url or the later urls from being attempted, and leaves
\* the ledger as it was: a url is left only when every new item has had its
\* transfer call, main returns only on a shutdown request or an error of
\* its own statements, and a step in which a transfer or an enumeration
\* fails changes no ledger entry.
C4_PartialFailureIsolation ==
  /\ [](pc = "url" => url_unattempted = 0)
  /\ [](pc = "exited" => shutdown_requested \/ stopped_by = "error")
  /\ [][(pc \in {"download", "extract"} /\ pc' \in {"item", "url"})
          => archive_history' = archive_history]_vars

\* The second new item of a collection is being transferred although the
\* first one failed (it is not in the ledger).
C4_Witness ==
  /\ pc = "download"
  /\ IsPlaylist(info)
  /\ item_idx > 1
  /\ ~is_archived(archive_history, IdentityKey(new_items[1]))

\* C5: after the initial load the key set of the in-memory ledger never
\* shrinks while the process lives, and recording a key that is present
\* replaces its record and leaves the number of entries unchanged.
C5_LedgerMonotone ==
  [][(pc # "init" /\ pc' # "killed")
       => /\ DOMAIN archive_history \subseteq DOMAIN archive_history'
          /\ (pc = "download" /\ pc' = "save_chmod_dir" /\ is_archived(archive_history, CurKey))
               => /\ Cardinality(DOMAIN archive_history') = Cardinality(DOMAIN archive_history)
                  /\ archive_history'[CurKey] = HistoryRecord(CurUrl, CurItem)]_vars

\* A key that was present has just been recorded again.
C5_Witness == last_record = "overwrite" /\ Cardinality(DOMAIN archive_history) > 1

\* C6: if the process is killed while the ledger is being persisted, the
\* storage file holds the complete previous or the complete new version, so
\* a restart loads every record the file held before the save in progress.
C6_CrashSafeFile ==
  pc = "killed"
    => \A k \in DOMAIN load_archive_history(file_before) :
         /\ k \in DOMAIN load_archive_history(file)
         /\ load_archive_history(file)[k] = load_archive_history(file_before)[k]

\* C7: saving a ledger and loading it again yields the same key set and the
\* same record for each key: right after save_archive_history has written
\* the file, load_archive_history of it is the ledger in memory.
C7_RoundTrip == pc = "save_chmod_file" => load_archive_history(file) = archive_history

\* A ledger of more than one record has just been written.
C7_Witness == pc = "save_chmod_file" /\ Cardinality(DOMAIN archive_history) > 1

\* C8: a shutdown signal delivered during the wait makes the loop exit
\* within one sleep slice of the signal, whatever the interval: the wait
\* never runs more than one slice past the signal, and the process is not
\* running any more once a full slice has passed.
C8_SleepShutdownLatency ==
  sig_pc = "sleep"
    => /\ slept <= sig_slept + SLEEP_SLICE
       /\ pc \notin Stopped => slept < sig_slept + SLEEP_SLICE

\* The process has exited on a signal that came during a wait with more
\* than one slice left.
C8_Witness ==
  /\ sig_pc = "sleep"
  /\ pc = "exited"
  /\ sig_slept + SLEEP_SLICE < archive_wait_time

\* C9: a shutdown signal delivered while a transfer is in flight does not
\* abort it: the process stops only after the transfer has succeeded (and
\* is in the ledger) or failed.
C9_TransferRunsToCompletion == pc = "exited" => transfer # "in_flight"

\* C10: once a shutdown signal has been received no further url is
\* enumerated, no pass and no wait is begun, and a process that has exited
\* stays so.
C10_NoNewWorkAfterShutdown ==
  /\ [][shutdown_requested
          => /\ pc' = "extract" => pc = "extract"
             /\ pc' = "sleep" => pc = "sleep"
             /\ pass_no' > pass_no => FALSE]_vars
  /\ [][pc = "exited" => pc' = "exited"]_vars

\* The signal was caught inside save_archive_history and main, back at the
\* for loop, has urls left.
C10_Witness ==
  /\ shutdown_requested
  /\ pc = "url"
  /\ url_idx <= Len(url_list)

\* C11: an unexpected error that escapes the per-item and per-url handlers
\* inside the pass loop is caught at the top-level handler, the stopped
\* message is printed, no further pass is run, and the process exits with a
\* non-zero status.
C11_TopLevelErrorExitsNonZero ==
  stopped_by = "error"
    => /\ pc = "exited"
       /\ StoppedMessage
       /\ pass_no = 0
       /\ exit_status # NoStatus /\ exit_status # 0

\* The value an option takes from one source alone, after the option's own
\* conversion.
FromSource(field, v) == Getter(field, Unset, v)

\* C12: for every option the resolved value is the environment value when a
\* non-empty environment override and a config-file value are both set, the
\* config-file value when it alone is set, and a default when neither is
\* set.
C12_ConfigPrecedence ==
  resolved # Pending
    => IF EnvTruthy(env_value) /\ file_value # Missing
         THEN resolved = FromSource(cfg_field, env_value)
         ELSE IF ~EnvTruthy(env_value) /\ file_value # Missing
                THEN resolved = FromSource(cfg_field, file_value)
                ELSE ~EnvTruthy(env_value) => IsValue(resolved)

\* C13: with an empty url list the engine does not error: each pass ends
\* with no enumeration and no transfer and leads to the wait, the wait lasts
\* the configured interval and leads back to the loop, and the loop begins
\* another pass, until a shutdown signal arrives (or the process is killed).
C13_EmptyListKeepsCycling ==
  /\ [](pc \in {"init", "loop", "url", "sleep"} \cup Stopped)
  /\ [](transfer = "none" /\ attempted = 0 /\ info = NoneInfo)
  /\ [](pc = "exited" => shutdown_requested)
  /\ [][(pc = "sleep" /\ pc' = "loop") => slept >= archive_wait_time]_vars
  /\ (pc = "url") ~> (pc = "sleep" \/ pc \in Stopped)
  /\ (pc = "sleep") ~> (pc = "loop" \/ pc \in Stopped)
  /\ (pc = "loop" /\ pass_no < MaxPass) ~> (pc = "url" \/ pc \in Stopped)

\* A second pass over the empty list has begun after a full wait.
C13_Witness ==
  /\ url_list = <<>>
  /\ pc = "url"
  /\ pass_no > 1
  /\ archive_wait_time > 0
  /\ slept = archive_wait_time

\* The role of each step of a pipeline, by its postprocessor key.
PipelineKeys(pp) == [i \in DOMAIN pp |-> pp[i].key]

\* C14: the post-processing pipeline depends on the embed-metadata setting
\* alone: enabled, it is audio extraction, metadata injection, thumbnail
\* embedding, permission normalization, in that order; disabled, it is the
\* permission normalization alone; the permission normalization is always
\* the last step.
C14_PipelineByEmbedMetadata ==
  ytdl_opts # NoOpts
    => LET pp == ytdl_opts.postprocessors
       IN /\ PipelineKeys(pp) =
               IF resolved.bool
                 THEN <<"FFmpegExtractAudio", "FFmpegMetadata", "EmbedThumbnail", "Exec">>
                 ELSE <<"Exec">>
          /\ pp[Len(pp)].exec_cmd = "chmod 666 {}"
          /\ pp[Len(pp)].when = "after_move"

\* Options built with metadata embedding enabled through the environment,
\* a cookies file and format listing.
C14_Witness ==
  /\ ytdl_opts # NoOpts
  /\ resolved.bool
  /\ EnvTruthy(env_value)
  /\ "cookiefile" \in DOMAIN ytdl_opts
  /\ ytdl_opts.listformats

\* C15: for every candidate of a collection, also one without identifier,
\* the key looked up in the ledger to decide skip-or-transfer is the key
\* add_to_history stores the item under (its identifier, or its source url
\* when it has none): a candidate that has been recorded under its stored
\* key is found under its lookup key and is not among the new items of a
\* later enumeration.
C15_IdentityKeyConsistency ==
  (pc = "dispatch" /\ IsPlaylist(info))
    => \A i \in DOMAIN info.entries :
         LET e == info.entries[i]
         IN Truthy(e)
              => (HistoryKey(e.url, e) \in recorded
                    => /\ is_archived(archive_history, LookupKey(e))
                       /\ \A j \in DOMAIN new_items : new_items[j] # e)

\* C16: a key is added to the ledger during a run only by the step in which
\* the transfer call for that item returns successfully; an item that is
\* not in the ledger (its transfer failed, was never attempted or was
\* interrupted) is among the new items of the next enumeration that lists
\* it, and a single track that is not in the ledger is transferred.
C16_RecordedOnlyAfterSuccess ==
  /\ [][pc # "init"
          => \A k \in (DOMAIN archive_history') \ (DOMAIN archive_history) :
               pc = "download" /\ transfer' = "succeeded" /\ k = CurKey]_vars
  /\ []((pc = "dispatch" /\ IsPlaylist(info))
          => \A i \in DOMAIN info.entries :
               (Truthy(info.entries[i])
                  /\ ~is_archived(archive_history, IdentityKey(info.entries[i])))
                 => \E j \in DOMAIN new_items : new_items[j] = info.entries[i])
  /\ [][(pc = "dispatch" /\ ~IsPlaylist(info) /\ pc' \notin Stopped
           /\ ~is_archived(archive_history, HistoryKey(url_list[url_idx], info)))
          => pc' = "download"]_vars

\* The transfer of a new item of a collection has just failed and the item
\* is not in the ledger.
C16_Witness ==
  /\ pc = "item"
  /\ transfer = "failed"
  /\ item_idx > 1
  /\ ~is_archived(archive_history, IdentityKey(new_items[item_idx - 1]))

\* The keys add_to_history has returned for although their save failed: they
\* are recorded and the storage file, not being rewritten at the moment,
\* does not hold them.
PersistFailedKeys ==
  IF pc = "save_write" \/ save_failures = 0
    THEN {}
    ELSE {k \in recorded : k \notin DOMAIN load_archive_history(file)}

\* C17: when persisting fails inside add_to_history the insert is kept in
\* memory, the error does not propagate (add_to_history returns and the pass
\* goes on), and no transfer call is issued again for the item in the same
\* process (stated for enumerations that list no item twice).
C17_PersistFailureKeepsInsert ==
  \A k \in PersistFailedKeys :
    /\ is_archived(archive_history, k)
    /\ ~(pc = "download" /\ NoRepeats(new_items) /\ CurKey = k)

\* The storage file cannot be loaded: it is missing, unreadable or does not
\* parse.
CannotLoad(f) == ~(f.exists /\ f.complete)

\* C18: loading the ledger never stops the process: when the storage file
\* is missing, unreadable or does not parse, the load leaves an empty ledger
\* and main goes on to its loop, the first pass begins, and every entry the
\* first enumeration lists is a new item.
C18_LoadNeverFatal ==
  /\ [][(pc = "init" /\ pc' \notin Stopped)
          => /\ pc' = "loop"
             /\ CannotLoad(file) => archive_history' = EmptyDict]_vars
  /\ [][(pc = "loop" /\ pass_no = 0 /\ ~shutdown_requested /\ pc' \notin Stopped)
          => pc' = "url" /\ pass_no' = 1]_vars
  /\ []((pc = "dispatch" /\ pass_no = 1 /\ url_idx = 1 /\ CannotLoad(file)
           /\ IsPlaylist(info))
          => new_items = SelectSeq(info.entries, Truthy))

\* The first enumeration after the load of a damaged file lists an entry
\* the file held, and the entry is new.
C18_Witness ==
  /\ pc = "dispatch"
  /\ pass_no = 1
  /\ url_idx = 1
  /\ file.exists /\ ~file.complete /\ file.text # <<>>
  /\ \E j \in DOMAIN new_items :
       /\ "id" \in DOMAIN new_items[j]
       /\ new_items[j].id = file.text[1][1]

\* The process has exited on a shutdown signal that came after the ledger
\* was loaded.
ExitedOnShutdown ==
  pc = "exited" /\ shutdown_requested /\ sig_pc \notin {"none", "init"}

\* A load of the storage file yields every record in memory.
RecordsInFile ==
  \A k \in DOMAIN archive_history :
    /\ k \in DOMAIN load_archive_history(file)
    /\ load_archive_history(file)[k] = archive_history[k]

\* The storage file is a complete ledger that holds every record in memory.
FileHoldsLedger == file.exists /\ file.complete /\ RecordsInFile

C20_PassesSeparatedBySleep ==
  (pc = "url" /\ pass_no > 1 /\ url_idx = 1)
    => archive_wait_time > 0 /\ slept >= SLEEP_SLICE

====
